---------------------------- MODULE Spec2Model ----------------------------
(***************************************************************************)
(* Link graph job of the cargo distribution: src/linkgraph/linkgraphjob.cpp *)
(*                                                                         *)
(* One LinkGraphJob, its worker thread and the main thread that spawns,    *)
(* aborts, finalises and destroys it.  The station pool, the goods entries *)
(* and the live link graph are the world FinaliseJob merges into.          *)
(***************************************************************************)
EXTENDS Integers, FiniteSets, Sequences, TLC

(***************************************************************************)
(* Bounds of the model.                                                    *)
(***************************************************************************)
NumNodes == 2       \* nodes of the snapshot, this->Size()
MaxOffset == 1      \* station id of node n is n + offset, offset in 0..MaxOffset
MaxFlow == 2        \* largest flow of one entry, the sum of its shares
MaxEntries == 2     \* flow entries (computed and live together) put into the tables
MaxFaults == 1      \* stations / edges / graphs / settings changed while the job ran
MaxCalls == 2       \* FinaliseJob calls on the job
MaxSize == 3        \* nodes of the snapshot of the job whose worker is followed
MaxSupply == 1      \* largest supply of a node of that snapshot, per node id
MaxCap == 2         \* largest capacity of an edge of that snapshot, and of a Fork
MaxDist == 2        \* largest distance of a new leg given to Fork
MaxPush == 2        \* largest amount of flow asked of one AddFlow call
MaxForks == 3       \* Fork calls followed
MaxPushes == 2      \* AddFlow calls followed

INVALID_DATE == -1

\* the largest unsigned value; it stands for 2^32 - 1 and is larger than every
\* amount the worker computes here
UINT_MAX == 2147483647
INT_MAX == 2147483647
INT_MIN == (-INT_MAX) - 1
INVALID_NODE == 65535
\* a leg without parent: GetParent() == nullptr
NoParent == -1

Nodes == 0 .. (NumNodes - 1)
Offsets == 0 .. MaxOffset
StationIDs == 0 .. (NumNodes - 1 + MaxOffset)
Dates == {INVALID_DATE, 0}

VARIABLES
    offset,        \* link_graph[n].Station() = n + offset
    group,         \* this->group != nullptr
    thread,        \* the group's thread running this job: "none", "running", "finished"
    job_completed, \* this->job_completed
    abort_job,     \* this->abort_job
    destroyed,     \* ~LinkGraphJob has run
    flows,         \* (*this)[node].Flows(): the computed flow tables, by node
    edge_flow,     \* the node pairs <<from, to>> with (*this)[from][to].Flow() > 0
    lg_valid,      \* LinkGraph::IsValidID(this->link_graph.index)
    lg_edge,       \* (*lg)[from][to]: last update and last unrestricted update
    st_valid,      \* Station::GetIfValid(id) != nullptr
    ge_link_graph, \* st->goods[cargo].link_graph, "job" being this->link_graph.index
    ge_node,       \* st->goods[cargo].node
    ge_flows,      \* st->goods[cargo].flows: the live flow tables, by station
    manual,        \* _settings_game.linkgraph.GetDistributionType(cargo) == DT_MANUAL
    pc,            \* main thread: "idle", or inside FinaliseJob at "edges" / "merge"
    node_id,       \* the loop variable of FinaliseJob
    rerouted,      \* the RerouteCargo calls made: <<station, via, fallback>>
    redrawn,       \* the stations InvalidateWindowData was called for
    calls,         \* the FinaliseJob calls made
    last,          \* the last step of FinaliseJob taken, and its node
    old_flows,     \* flows before that step
    old_ge_flows,  \* ge_flows before that step
    old_rerouted,  \* rerouted before that step
    inv_erase,     \* the origins whose Invalidate() returned true in that step
    events,        \* the erase and RerouteCargo calls of the last merge step, in order
    size,          \* this->Size(): the nodes of the snapshot
    supply,        \* link_graph[n].Supply()
    nodes,         \* this->nodes: the node annotations, empty before Init()
    edges,         \* this->edges: the edge annotations, empty before Init()
    wlast,         \* the last operation of the worker, with its arguments
    capacity,      \* link_graph[from][to].Capacity()
    max_saturation,\* the max_saturation the solver stage passes to AddFlow
    paths,         \* the Path objects made, by the node they were made for
    node_paths,    \* (*this)[node].Paths(): the legs registered at the node
    old_paths,     \* paths before the last Fork or AddFlow
    old_edges,     \* edges before the last Fork or AddFlow
    forks,         \* the Fork calls made
    pushes,        \* the AddFlow calls made
    settings       \* this->settings: the link graph settings copied at construction

vars == <<offset, group, thread, job_completed, abort_job, destroyed, flows,
          edge_flow, lg_valid, lg_edge, st_valid, ge_link_graph, ge_node,
          ge_flows, manual, pc, node_id, rerouted, redrawn, calls, last,
          old_flows, old_ge_flows, old_rerouted, inv_erase, events,
          size, supply, nodes, edges, wlast, capacity, max_saturation, paths,
          node_paths, old_paths, old_edges, forks, pushes, settings>>

\* the state of the worker's calculation and the settings it runs with
workerVars == <<size, supply, nodes, edges, wlast, capacity, max_saturation,
                paths, node_paths, old_paths, old_edges, forks, pushes,
                settings>>

\* the state of the job's control and of the world it is merged into
mainVars == <<offset, group, thread, job_completed, abort_job, destroyed, flows,
              edge_flow, lg_valid, lg_edge, st_valid, ge_link_graph, ge_node,
              ge_flows, manual, pc, node_id, rerouted, redrawn, calls, last,
              old_flows, old_ge_flows, old_rerouted, inv_erase, events>>

jobVars == <<group, thread, job_completed, abort_job, destroyed>>
worldVars == <<lg_valid, lg_edge, st_valid, ge_link_graph, ge_node, manual>>
finVars == <<pc, node_id, rerouted, redrawn, calls, last, old_flows,
             old_ge_flows, old_rerouted, inv_erase, events>>

(***************************************************************************)
(* Flow tables.  A FlowStat is an origin station and its shares; a share   *)
(* is a next hop (via), an amount and whether it is restricted.  A         *)
(* FlowStatMap is a set of FlowStats, looked up by origin.                 *)
(***************************************************************************)
Station(n) == n + offset

NodeStations == {Station(n) : n \in Nodes}

RECURSIVE SumFlow(_)
SumFlow(shares) ==
    IF shares = {} THEN 0
    ELSE LET s == CHOOSE x \in shares : TRUE
         IN  s.flow + SumFlow(shares \ {s})

Shares == [via : NodeStations, flow : 1 .. MaxFlow, restricted : {FALSE}]

\* the share tables entries are created with: one unrestricted share per next hop
ShareTables ==
    {s \in SUBSET Shares :
        /\ s # {}
        /\ \A a, b \in s : a.via = b.via => a = b
        /\ SumFlow(s) <= MaxFlow}

FlowStat(o, s) == [origin |-> o, shares |-> s]

Origins(map) == {e.origin : e \in map}

Vias(fs) == {s.via : s \in fs.shares}

\* FlowStatMap::find(origin)
Find(map, o) == {e \in map : e.origin = o}

\* FlowStatMap::erase(origin)
Erase(map, o) == {e \in map : e.origin # o}

\* FlowStatMap::insert(flowstat): no second entry for an origin already there
Insert(map, fs) == IF fs.origin \in Origins(map) THEN map ELSE map \cup {fs}

\* FlowStat::ChangeShare(via, INT_MIN): the share to via is removed
ChangeShare(fs, via) ==
    [fs EXCEPT !.shares = {s \in fs.shares : s.via # via}]

\* FlowStatMap::DeleteFlows(via): the table without the shares to via, entries
\* left without shares erased
DeleteFlows(map, via) ==
    {ChangeShare(e, via) : e \in {x \in map : ChangeShare(x, via).shares # {}}}

\* the StationIDStack DeleteFlows returns: the origins of the entries erased
DeletedOrigins(map, via) ==
    {e.origin : e \in {x \in map : ChangeShare(x, via).shares = {}}}

\* FlowStatMap::RestrictFlows(via): the shares to via become restricted
RestrictFlows(map, via) ==
    {[e EXCEPT !.shares =
         {IF s.via = via THEN [s EXCEPT !.restricted = TRUE] ELSE s : s \in e.shares}]
     : e \in map}

\* FlowStat::Invalidate(): the shares reduced to the minimum amount
Invalidate(fs) ==
    [fs EXCEPT !.shares = {[s EXCEPT !.flow = 1] : s \in fs.shares}]

\* FlowStat::SwapShares(other): this entry with the other's shares
SwapShares(fs, other) == [fs EXCEPT !.shares = other.shares]


(***************************************************************************)
(* LinkGraphJob::LinkGraphJob: the job right after construction.  The      *)
(* snapshot has NumNodes nodes, node n standing for station n + offset;    *)
(* no group is set, both flags are false, nothing is computed yet.  The    *)
(* world is consistent with the snapshot: every station exists and its     *)
(* goods entry points at this graph and at its node.                       *)
(***************************************************************************)
Init ==
    /\ offset \in Offsets
    /\ group = FALSE
    /\ thread = "none"
    /\ job_completed = FALSE
    /\ abort_job = FALSE
    /\ destroyed = FALSE
    /\ flows = [n \in Nodes |-> {}]
    /\ edge_flow = {}
    /\ lg_valid = TRUE
    /\ lg_edge = [e \in Nodes \X Nodes |->
                     [last_update |-> 0, last_unrestricted_update |-> 0]]
    /\ st_valid = [s \in StationIDs |-> TRUE]
    /\ ge_link_graph = [s \in StationIDs |-> "job"]
    /\ ge_node = [s \in StationIDs |-> s - offset]
    /\ ge_flows = [s \in StationIDs |-> {}]
    /\ manual = FALSE
    /\ pc = "idle"
    /\ node_id = 0
    /\ rerouted = {}
    /\ redrawn = {}
    /\ calls = 0
    /\ last = [kind |-> "none", node |-> 0]
    /\ old_flows = [n \in Nodes |-> {}]
    /\ old_ge_flows = [s \in StationIDs |-> {}]
    /\ old_rerouted = {}
    /\ inv_erase = {}
    /\ events = <<>>
    /\ size = NumNodes
    /\ supply = [n \in Nodes |-> 0]
    /\ nodes = <<>>
    /\ edges = <<>>
    /\ wlast = [kind |-> "none"]
    /\ capacity = [e \in Nodes \X Nodes |-> 0]
    /\ max_saturation = UINT_MAX
    /\ paths = <<>>
    /\ node_paths = [n \in Nodes |-> <<>>]
    /\ old_paths = <<>>
    /\ old_edges = <<>>
    /\ forks = 0
    /\ pushes = 0
    /\ settings = [distribution_manual |-> manual]

\* the entries put into the computed and the live tables so far
Entries ==
    LET RECURSIVE Sum(_, _)
        Sum(f, S) == IF S = {} THEN 0
                     ELSE LET x == CHOOSE y \in S : TRUE
                          IN  Cardinality(f[x]) + Sum(f, S \ {x})
    IN  Sum(flows, Nodes) + Sum(ge_flows, StationIDs)

(***************************************************************************)
(* LinkGraphJob::SetJobGroup: the job is given its group, whose thread     *)
(* starts running it.  The schedule does this once, for a job it has       *)
(* neither aborted nor finalised.                                          *)
(***************************************************************************)
SetJobGroup ==
    /\ pc = "idle" /\ ~destroyed /\ calls = 0 /\ ~abort_job
    /\ ~group /\ thread = "none"
    /\ group' = TRUE
    /\ thread' = "running"
    /\ UNCHANGED <<offset, job_completed, abort_job, destroyed, flows, edge_flow,
                   ge_flows>>
    /\ UNCHANGED worldVars
    /\ UNCHANGED finVars
    /\ UNCHANGED workerVars

(***************************************************************************)
(* The worker thread.  The solver stages are outside this file: a stage    *)
(* writes one computed flow entry at a time into a node's table and counts *)
(* the flow on the edges it uses; the thread ends after all stages         *)
(* (job_completed) or when it sees the abort flag.                         *)
(***************************************************************************)
WorkerAddFlow(n, o, sh) ==
    /\ thread = "running" /\ ~job_completed
    /\ Entries < MaxEntries
    /\ o \notin Origins(flows[n])
    /\ flows' = [flows EXCEPT ![n] = Insert(@, FlowStat(o, sh))]
    /\ edge_flow' = edge_flow \cup
           {<<n, m>> : m \in {x \in Nodes : x # n /\ Station(x) \in {s.via : s \in sh}}}
    /\ UNCHANGED <<offset, ge_flows>>
    /\ UNCHANGED jobVars
    /\ UNCHANGED worldVars
    /\ UNCHANGED finVars
    /\ UNCHANGED workerVars

WorkerFinish ==
    /\ thread = "running"
    /\ thread' = "finished"
    /\ job_completed' = TRUE
    /\ UNCHANGED <<offset, group, abort_job, destroyed, flows, edge_flow, ge_flows>>
    /\ UNCHANGED worldVars
    /\ UNCHANGED finVars
    /\ UNCHANGED workerVars

\* a read of the abort flag that can return true at any time
IsJobAbortedSpurious == BOOLEAN

\* LinkGraphJob::IsJobAborted read on the worker thread: a relaxed load, which
\* returns the flag or, after AbortJob, still the value from before it
IsJobAborted == IF abort_job THEN BOOLEAN ELSE {FALSE}

\* the thread has read IsJobAborted() as true and ends without completing
WorkerAborted ==
    /\ thread = "running"
    /\ TRUE \in IsJobAborted
    /\ thread' = "finished"
    /\ UNCHANGED <<offset, group, job_completed, abort_job, destroyed, flows,
                   edge_flow, ge_flows>>
    /\ UNCHANGED worldVars
    /\ UNCHANGED finVars
    /\ UNCHANGED workerVars

(***************************************************************************)
(* The world the job was taken from, and what has changed in it since.  An *)
(* abort or a destruction of a job that is not finalised does not read the *)
(* world, and nothing reads it afterwards: these are taken before the      *)
(* world changes.                                                          *)
(***************************************************************************)
NodeOk(n) ==
    /\ st_valid[Station(n)]
    /\ ge_link_graph[Station(n)] = "job"
    /\ ge_node[Station(n)] = n

EdgeOk(n, m) ==
    /\ lg_edge[<<n, m>>].last_update # INVALID_DATE
    /\ lg_edge[<<n, m>>].last_unrestricted_update # INVALID_DATE

Faults ==
    Cardinality({n \in Nodes : ~NodeOk(n)})
    + Cardinality({e \in Nodes \X Nodes : ~EdgeOk(e[1], e[2])})
    + (IF lg_valid THEN 0 ELSE 1)
    + (IF manual THEN 1 ELSE 0)

\* nothing of the world has changed since the job was constructed
Untouched == Faults = 0 /\ \A s \in StationIDs : ge_flows[s] = {}

ScheduleActs == Untouched

(***************************************************************************)
(* LinkGraphJob::AbortJob: sets the flag and returns.                      *)
(***************************************************************************)
AbortJob ==
    /\ pc = "idle" /\ ~destroyed /\ calls = 0
    /\ ScheduleActs
    /\ ~abort_job
    /\ abort_job' = TRUE
    /\ UNCHANGED <<offset, group, thread, job_completed, destroyed, flows,
                   edge_flow, ge_flows>>
    /\ UNCHANGED worldVars
    /\ UNCHANGED finVars
    /\ UNCHANGED workerVars

(***************************************************************************)
(* LinkGraphJob::JoinThread: with a group, group->JoinThread() returns     *)
(* once the thread has finished, and the group is released; without a      *)
(* group nothing is joined.                                                *)
(***************************************************************************)
\* LinkGraphJobGroup::JoinThread has not returned yet: the thread is running
GroupThreadRunning == thread = "running"

\* JoinThread that returns without joining
JoinThreadNoJoin == FALSE

JoinThreadBlocks == group /\ GroupThreadRunning

\* JoinThread that joins and keeps its reference to the group
JoinThreadKeepsGroup ==
    /\ pc = "idle" /\ ~destroyed /\ calls = 0
    /\ ~JoinThreadBlocks
    /\ last' = [kind |-> IF group THEN "join" ELSE "nojoin", node |-> 0]
    /\ old_flows' = flows
    /\ old_ge_flows' = ge_flows
    /\ old_rerouted' = rerouted
    /\ UNCHANGED <<offset, flows, edge_flow, ge_flows, pc, node_id, rerouted,
                   redrawn, calls, inv_erase, events>>
    /\ UNCHANGED jobVars
    /\ UNCHANGED worldVars
    /\ UNCHANGED workerVars

\* a call of JoinThread by the main thread outside FinaliseJob and the
\* destructor (which call it themselves), on a job not yet finalised.  The
\* call returns once the group's thread has finished; last.kind tells
\* whether it found a group ("join") or not ("nojoin").
JoinThread ==
    /\ pc = "idle" /\ ~destroyed /\ calls = 0
    /\ ~JoinThreadBlocks
    /\ group' = FALSE
    /\ last' = [kind |-> IF group THEN "join" ELSE "nojoin", node |-> 0]
    /\ old_flows' = flows
    /\ old_ge_flows' = ge_flows
    /\ old_rerouted' = rerouted
    /\ UNCHANGED <<offset, thread, job_completed, abort_job, destroyed, flows,
                   edge_flow, ge_flows, pc, node_id, rerouted, redrawn, calls,
                   inv_erase, events>>
    /\ UNCHANGED worldVars
    /\ UNCHANGED workerVars

(***************************************************************************)
(* LinkGraphJob::~LinkGraphJob: joins, then the job is gone.               *)
(***************************************************************************)
\* a destructor that does not call JoinThread
DestroyNoJoin ==
    /\ pc = "idle" /\ ~destroyed
    /\ calls = 0 => ScheduleActs
    /\ destroyed' = TRUE
    /\ UNCHANGED <<offset, group, thread, job_completed, abort_job, flows,
                   edge_flow, ge_flows>>
    /\ UNCHANGED worldVars
    /\ UNCHANGED finVars
    /\ UNCHANGED workerVars

Destroy ==
    /\ pc = "idle" /\ ~destroyed
    /\ calls = 0 => ScheduleActs
    /\ ~JoinThreadBlocks
    /\ group' = FALSE
    /\ destroyed' = TRUE
    /\ UNCHANGED <<offset, thread, job_completed, abort_job, flows, edge_flow,
                   ge_flows>>
    /\ UNCHANGED worldVars
    /\ UNCHANGED finVars
    /\ UNCHANGED workerVars

(***************************************************************************)
(* The game running on the main thread while the job is in flight: it      *)
(* deletes stations, moves them to another link graph or another node,     *)
(* removes or restricts links, merges the link graph away and fills the    *)
(* stations' flow tables.  FinaliseJob is the only reader of this state,   *)
(* so the changes are taken when the job is ready to be finalised.         *)
(***************************************************************************)
GameRuns ==
    /\ pc = "idle" /\ ~destroyed /\ ~abort_job
    /\ thread = "finished" /\ calls = 0

DeleteStation(n) ==
    /\ GameRuns /\ Faults < MaxFaults
    /\ NodeOk(n)
    /\ st_valid' = [st_valid EXCEPT ![Station(n)] = FALSE]
    /\ ge_flows' = [ge_flows EXCEPT ![Station(n)] = {}]
    /\ UNCHANGED <<offset, flows, edge_flow, lg_valid, lg_edge, ge_link_graph,
                   ge_node, manual>>
    /\ UNCHANGED jobVars
    /\ UNCHANGED finVars
    /\ UNCHANGED workerVars

ReassignStation(n) ==
    /\ GameRuns /\ Faults < MaxFaults
    /\ NodeOk(n)
    /\ ge_link_graph' = [ge_link_graph EXCEPT ![Station(n)] = "other"]
    /\ UNCHANGED <<offset, flows, edge_flow, lg_valid, lg_edge, st_valid, ge_node,
                   ge_flows, manual>>
    /\ UNCHANGED jobVars
    /\ UNCHANGED finVars
    /\ UNCHANGED workerVars

RenumberStation(n) ==
    /\ GameRuns /\ Faults < MaxFaults
    /\ NodeOk(n)
    /\ ge_node' = [ge_node EXCEPT ![Station(n)] = (n + 1) % NumNodes]
    /\ UNCHANGED <<offset, flows, edge_flow, lg_valid, lg_edge, st_valid,
                   ge_link_graph, ge_flows, manual>>
    /\ UNCHANGED jobVars
    /\ UNCHANGED finVars
    /\ UNCHANGED workerVars

RemoveEdge(n, m) ==
    /\ GameRuns /\ Faults < MaxFaults
    /\ n # m /\ EdgeOk(n, m)
    /\ lg_edge' = [lg_edge EXCEPT ![<<n, m>>] =
                      [last_update |-> INVALID_DATE,
                       last_unrestricted_update |-> INVALID_DATE]]
    /\ UNCHANGED <<offset, flows, edge_flow, lg_valid, st_valid, ge_link_graph,
                   ge_node, ge_flows, manual>>
    /\ UNCHANGED jobVars
    /\ UNCHANGED finVars
    /\ UNCHANGED workerVars

RestrictEdge(n, m) ==
    /\ GameRuns /\ Faults < MaxFaults
    /\ n # m /\ EdgeOk(n, m)
    /\ lg_edge' = [lg_edge EXCEPT ![<<n, m>>].last_unrestricted_update = INVALID_DATE]
    /\ UNCHANGED <<offset, flows, edge_flow, lg_valid, st_valid, ge_link_graph,
                   ge_node, ge_flows, manual>>
    /\ UNCHANGED jobVars
    /\ UNCHANGED finVars
    /\ UNCHANGED workerVars

SetDistributionManual ==
    /\ GameRuns /\ Faults < MaxFaults
    /\ ~manual
    /\ manual' = TRUE
    /\ UNCHANGED <<offset, flows, edge_flow, lg_valid, lg_edge, st_valid,
                   ge_link_graph, ge_node, ge_flows>>
    /\ UNCHANGED jobVars
    /\ UNCHANGED finVars
    /\ UNCHANGED workerVars

MergeGraph ==
    /\ GameRuns /\ Faults < MaxFaults
    /\ lg_valid
    /\ lg_valid' = FALSE
    /\ UNCHANGED <<offset, flows, edge_flow, lg_edge, st_valid, ge_link_graph,
                   ge_node, ge_flows, manual>>
    /\ UNCHANGED jobVars
    /\ UNCHANGED finVars
    /\ UNCHANGED workerVars

StationAddFlow(n, o, sh) ==
    /\ GameRuns /\ Entries < MaxEntries
    /\ st_valid[Station(n)]
    /\ o \notin Origins(ge_flows[Station(n)])
    /\ ge_flows' = [ge_flows EXCEPT ![Station(n)] = Insert(@, FlowStat(o, sh))]
    /\ UNCHANGED <<offset, flows, edge_flow>>
    /\ UNCHANGED jobVars
    /\ UNCHANGED worldVars
    /\ UNCHANGED finVars
    /\ UNCHANGED workerVars

(***************************************************************************)
(* LinkGraphJob::FinaliseJob.  The caller (the schedule) finalises a job   *)
(* it has not aborted, and merges it once.                                 *)
(***************************************************************************)
\* a schedule that finalises aborted jobs too
ScheduleFinalisesAborted == calls = 0 \/ last.kind = "abandon"

ScheduleMayFinalise ==
    /\ ~abort_job
    /\ (calls = 0 \/ last.kind = "abandon")

\* the station of the node exists and its goods entry still points at this
\* graph and this node
\* the test of the station without the test of its goods entry
StationExists(n) == st_valid[Station(n)]

StationConsistent(n) ==
    /\ st_valid[Station(n)]
    /\ ge_link_graph[Station(n)] = "job"
    /\ ge_node[Station(n)] = n

\* EraseFlows that erases in the table of the node from only
EraseFlowsOwnNode(from) ==
    [n \in Nodes |-> IF n = from THEN Erase(flows[n], from) ELSE flows[n]]

\* LinkGraphJob::EraseFlows(from): erase(from) on every node's table
EraseFlows(from) == [n \in Nodes |-> Erase(flows[n], from)]

\* the test of the edge loop: the edge has been removed
EdgeRemoved(n, m) ==
    \/ ~st_valid[Station(m)]
    \/ ge_link_graph[Station(m)] # "job"
    \/ ge_node[Station(m)] # m
    \/ lg_edge[<<n, m>>].last_update = INVALID_DATE

\* the test of the edge loop: the edge is fully restricted
EdgeRestricted(n, m) ==
    lg_edge[<<n, m>>].last_unrestricted_update = INVALID_DATE

\* ge.flows.erase(erased.Pop()) until the stack is empty
RECURSIVE EraseAll(_, _)
EraseAll(map, origins) ==
    IF origins = {} THEN map
    ELSE LET o == CHOOSE x \in origins : TRUE
         IN  EraseAll(Erase(map, o), origins \ {o})

\* the edge loop without the erasure from the live table
EdgeStepNoCascade(n, m, new, live) ==
    IF <<n, m>> \notin edge_flow
    THEN [flows |-> new, ge |-> live]
    ELSE IF EdgeRemoved(n, m)
    THEN [flows |-> DeleteFlows(new, Station(m)), ge |-> live]
    ELSE IF EdgeRestricted(n, m)
    THEN [flows |-> RestrictFlows(new, Station(m)), ge |-> live]
    ELSE [flows |-> new, ge |-> live]

\* the edge loop deleting the flows of a restricted edge as well
EdgeStepRestrictedDeleted(n, m, new, live) ==
    IF <<n, m>> \notin edge_flow
    THEN [flows |-> new, ge |-> live]
    ELSE IF EdgeRemoved(n, m) \/ EdgeRestricted(n, m)
    THEN [flows |-> DeleteFlows(new, Station(m)),
          ge |-> EraseAll(live, DeletedOrigins(new, Station(m)))]
    ELSE [flows |-> new, ge |-> live]

\* one edge of the loop: new is the node's computed table, live the station's
EdgeStep(n, m, new, live) ==
    IF <<n, m>> \notin edge_flow
    THEN [flows |-> new, ge |-> live]
    ELSE IF EdgeRemoved(n, m)
    THEN [flows |-> DeleteFlows(new, Station(m)),
          ge |-> EraseAll(live, DeletedOrigins(new, Station(m)))]
    ELSE IF EdgeRestricted(n, m)
    THEN [flows |-> RestrictFlows(new, Station(m)), ge |-> live]
    ELSE [flows |-> new, ge |-> live]

\* the edge loop from edge m on, in the order of the node ids
RECURSIVE EdgeLoop(_, _, _, _)
EdgeLoop(n, m, new, live) ==
    IF m >= NumNodes THEN [flows |-> new, ge |-> live]
    ELSE LET r == EdgeStep(n, m, new, live)
         IN  EdgeLoop(n, m + 1, r.flows, r.ge)

\* the live entries whose origin the computed table does not hold
Absent(live, new) == {e \in live : Find(new, e.origin) = {}}

\* should_erase that ignores what Invalidate() returns
ShouldEraseManualOnly(e, inv) == manual

\* should_erase that is what Invalidate() says under every distribution type
ShouldEraseInvalidateOnly(e, inv) == e.origin \in inv

\* should_erase: always under manual distribution, else what Invalidate() says
ShouldErase(e, inv) == manual \/ e.origin \in inv

\* the merge loop erasing every live entry the computed table does not hold
ErasedAllAbsent(live, new, inv) == Absent(live, new)

\* the live entries the merge loop erases
Erased(live, new, inv) == {e \in Absent(live, new) : ShouldErase(e, inv)}

\* the merge loop without SwapShares for the entries found
KeptNoSwap(live, new, inv) ==
    {Invalidate(e) : e \in Absent(live, new) \ Erased(live, new, inv)}
    \cup (live \ Absent(live, new))

\* the live entries the merge loop keeps: invalidated, or with the new shares
Kept(live, new, inv) ==
    {Invalidate(e) : e \in Absent(live, new) \ Erased(live, new, inv)}
    \cup {SwapShares(e, CHOOSE c \in Find(new, e.origin) : TRUE)
          : e \in live \ Absent(live, new)}

\* the computed entries the merge loop has not consumed
Remaining(live, new) == {c \in new : c.origin \notin Origins(live)}

\* the insert loop
RECURSIVE InsertAll(_, _)
InsertAll(map, entries) ==
    IF entries = {} THEN map
    ELSE LET e == CHOOSE x \in entries : TRUE
         IN  InsertAll(Insert(map, e), entries \ {e})

\* the merge without the insert loop
MergedNoInsert(live, new, inv) == Kept(live, new, inv)

\* the station's live table after the merge loop and the insert loop
Merged(live, new, inv) == InsertAll(Kept(live, new, inv), Remaining(live, new))

\* the merge loop without its RerouteCargo calls
ReroutesNone(st, erased) == {}

\* RerouteCargo(st, cargo, via, st->index) for every share of an erased entry
Reroutes(st, erased) ==
    UNION {{<<st, v, st>> : v \in Vias(e)} : e \in erased}

\* the RerouteCargo calls for the shares taken out of an erased entry, in the
\* order of the shares (here: of their next hops)
RECURSIVE RerouteCalls(_, _)
RerouteCalls(o, vias) ==
    IF vias = {} THEN <<>>
    ELSE LET v == CHOOSE x \in vias : \A y \in vias : x <= y
         IN  <<[kind |-> "reroute", origin |-> o, via |-> v]>>
             \o RerouteCalls(o, vias \ {v})

\* the calls for one erased entry, the RerouteCargo calls made first
EntryEventsRerouteFirst(e) ==
    RerouteCalls(e.origin, Vias(e)) \o <<[kind |-> "erase", origin |-> e.origin]>>

\* the calls for one erased entry: SwapShares takes its shares, ge.flows.erase
\* removes it, then RerouteCargo is called for every share taken
EntryEvents(e) ==
    <<[kind |-> "erase", origin |-> e.origin]>> \o RerouteCalls(e.origin, Vias(e))

\* the calls of the merge loop for the entries it erases, in the order of the
\* live table (by origin)
RECURSIVE MergeEvents(_)
MergeEvents(erased) ==
    IF erased = {} THEN <<>>
    ELSE LET e == CHOOSE x \in erased : \A y \in erased : x.origin <= y.origin
         IN  EntryEvents(e) \o MergeEvents(erased \ {e})

NextNode ==
    /\ node_id' = node_id + 1
    /\ pc' = IF node_id + 1 >= NumNodes THEN "idle" ELSE "edges"

Remember(kind) ==
    /\ last' = [kind |-> kind, node |-> node_id]
    /\ old_flows' = flows
    /\ old_ge_flows' = ge_flows
    /\ old_rerouted' = rerouted

\* JoinThread, then the link graph is gone: return
FinaliseJobAbandoned ==
    /\ pc = "idle" /\ ~destroyed /\ calls < MaxCalls
    /\ ScheduleMayFinalise
    /\ ~JoinThreadBlocks
    /\ ~lg_valid
    /\ group' = FALSE
    /\ calls' = calls + 1
    /\ Remember("abandon")
    /\ UNCHANGED <<offset, thread, job_completed, abort_job, destroyed, flows,
                   edge_flow, ge_flows, pc, node_id, rerouted, redrawn, inv_erase, events>>
    /\ UNCHANGED worldVars
    /\ UNCHANGED workerVars

\* FinaliseJob without the test of LinkGraph::IsValidID
FinaliseJobStartAnyGraph ==
    /\ pc = "idle" /\ ~destroyed /\ calls < MaxCalls
    /\ ScheduleMayFinalise
    /\ ~JoinThreadBlocks
    /\ group' = FALSE
    /\ calls' = calls + 1
    /\ node_id' = 0
    /\ pc' = "edges"
    /\ Remember("start")
    /\ UNCHANGED <<offset, thread, job_completed, abort_job, destroyed, flows,
                   edge_flow, ge_flows, rerouted, redrawn, inv_erase, events>>
    /\ UNCHANGED worldVars
    /\ UNCHANGED workerVars

\* JoinThread, then the loop over the nodes starts
FinaliseJobStart ==
    /\ pc = "idle" /\ ~destroyed /\ calls < MaxCalls
    /\ ScheduleMayFinalise
    /\ ~JoinThreadBlocks
    /\ lg_valid
    /\ group' = FALSE
    /\ calls' = calls + 1
    /\ node_id' = 0
    /\ pc' = "edges"
    /\ Remember("start")
    /\ UNCHANGED <<offset, thread, job_completed, abort_job, destroyed, flows,
                   edge_flow, ge_flows, rerouted, redrawn, inv_erase, events>>
    /\ UNCHANGED worldVars
    /\ UNCHANGED workerVars

\* the station is gone or inconsistent: EraseFlows(node_id); continue
FinaliseNodeErase ==
    /\ pc = "edges"
    /\ ~StationConsistent(node_id)
    /\ flows' = EraseFlows(node_id)
    /\ NextNode
    /\ Remember("erase")
    /\ UNCHANGED <<offset, edge_flow, ge_flows, rerouted, redrawn, calls, inv_erase, events>>
    /\ UNCHANGED jobVars
    /\ UNCHANGED worldVars
    /\ UNCHANGED workerVars

\* the loop over the edges of the node
FinaliseNodeEdges ==
    /\ pc = "edges"
    /\ StationConsistent(node_id)
    /\ LET r == EdgeLoop(node_id, 0, flows[node_id], ge_flows[Station(node_id)])
       IN  /\ flows' = [flows EXCEPT ![node_id] = r.flows]
           /\ ge_flows' = [ge_flows EXCEPT ![Station(node_id)] = r.ge]
    /\ pc' = "merge"
    /\ Remember("edges")
    /\ UNCHANGED <<offset, edge_flow, node_id, rerouted, redrawn, calls, inv_erase, events>>
    /\ UNCHANGED jobVars
    /\ UNCHANGED worldVars
    /\ UNCHANGED workerVars

\* the merge step writing the live table of the station whose id is node_id
FinaliseNodeMergeByNodeId ==
    /\ pc = "merge"
    /\ LET st == Station(node_id)
           live == ge_flows[st]
           new == flows[node_id]
       IN  \E inv \in SUBSET Origins(Absent(live, new)) :
               /\ manual => inv = {}
               /\ inv_erase' = inv
               /\ events' = MergeEvents(Erased(live, new, inv))
               /\ ge_flows' = [ge_flows EXCEPT ![node_id] = Merged(live, new, inv)]
               /\ flows' = [flows EXCEPT ![node_id] = Remaining(live, new)]
               /\ rerouted' = rerouted \cup Reroutes(st, Erased(live, new, inv))
               /\ redrawn' = redrawn \cup {st}
    /\ NextNode
    /\ Remember("merge")
    /\ UNCHANGED <<offset, edge_flow, calls>>
    /\ UNCHANGED jobVars
    /\ UNCHANGED worldVars
    /\ UNCHANGED workerVars

\* the merge loop, the insert loop, SortStorage (the order of the storage is
\* not part of the tables here) and InvalidateWindowData; the entries moved
\* into the live table stay in the computed table
FinaliseNodeMerge ==
    /\ pc = "merge"
    /\ LET st == Station(node_id)
           live == ge_flows[st]
           new == flows[node_id]
       IN  \E inv \in SUBSET Origins(Absent(live, new)) :
               /\ manual => inv = {}
               /\ inv_erase' = inv
               /\ events' = MergeEvents(Erased(live, new, inv))
               /\ ge_flows' = [ge_flows EXCEPT ![st] = Merged(live, new, inv)]
               /\ flows' = [flows EXCEPT ![node_id] = Remaining(live, new)]
               /\ rerouted' = rerouted \cup Reroutes(st, Erased(live, new, inv))
               /\ redrawn' = redrawn \cup {st}
    /\ NextNode
    /\ Remember("merge")
    /\ UNCHANGED <<offset, edge_flow, calls>>
    /\ UNCHANGED jobVars
    /\ UNCHANGED worldVars
    /\ UNCHANGED workerVars

\* one pass of the loop over the nodes, for node n, on the computed tables fl
\* and the live tables ge; orc[s] are the origins whose Invalidate() returns
\* true at station s
ProcessNode(n, fl, ge, orc) ==
    IF ~StationConsistent(n)
    THEN [flows |-> [m \in Nodes |-> Erase(fl[m], n)], ge |-> ge]
    ELSE LET st == Station(n)
             r == EdgeLoop(n, 0, fl[n], ge[st])
             inv == orc[st] \cap Origins(Absent(r.ge, r.flows))
         IN  [flows |-> [fl EXCEPT ![n] = Remaining(r.ge, r.flows)],
              ge |-> [ge EXCEPT ![st] = Merged(r.ge, r.flows, inv)]]

\* the loop over the nodes taken in the order order[k], order[k + 1], ...
RECURSIVE ProcessFrom(_, _, _, _, _)
ProcessFrom(k, order, fl, ge, orc) ==
    IF k >= NumNodes THEN [flows |-> fl, ge |-> ge]
    ELSE LET r == ProcessNode(order[k], fl, ge, orc)
         IN  ProcessFrom(k + 1, order, r.flows, r.ge, orc)

\* the order of the code: for (NodeID node_id = 0; node_id < size; ++node_id)
CodeOrder == [n \in Nodes |-> n]

Next ==
    \/ SetJobGroup
    \/ \E n \in Nodes, o \in NodeStations, sh \in ShareTables : WorkerAddFlow(n, o, sh)
    \/ WorkerFinish
    \/ WorkerAborted
    \/ AbortJob
    \/ JoinThread
    \/ Destroy
    \/ \E n \in Nodes : DeleteStation(n)
    \/ \E n \in Nodes : ReassignStation(n)
    \/ \E n \in Nodes : RenumberStation(n)
    \/ \E n, m \in Nodes : RemoveEdge(n, m)
    \/ \E n, m \in Nodes : RestrictEdge(n, m)
    \/ MergeGraph
    \/ SetDistributionManual
    \/ \E n \in Nodes, o \in NodeStations, sh \in ShareTables : StationAddFlow(n, o, sh)
    \/ FinaliseJobAbandoned
    \/ FinaliseJobStart
    \/ FinaliseNodeErase
    \/ FinaliseNodeEdges
    \/ FinaliseNodeMerge

Spec == Init /\ [][Next]_vars

(***************************************************************************)
(* The calculation on the worker thread, followed on its own: a job that   *)
(* has been given its group and whose thread runs.  The snapshot has size  *)
(* nodes, node n with supply[n].                                           *)
(***************************************************************************)
JobNodes == 0 .. (size - 1)

\* the values of max_saturation: half, all of the capacity, or no limit
Saturations == {50, 100, UINT_MAX}

\* the capacities of the snapshot's edges: an edge has the capacity of the
\* station it leads to
CapacityTables ==
    {[e \in JobNodes \X JobNodes |-> c[e[2]]] : c \in [JobNodes -> 1 .. MaxCap]}

\* the free capacities given to Fork: a saturated and an unsaturated leg
FreeCaps == {-1, 1}

\* the job and the world while the thread runs
JobRunning ==
    /\ offset = 0
    /\ group = TRUE
    /\ thread = "running"
    /\ job_completed = FALSE
    /\ abort_job = FALSE
    /\ destroyed = FALSE
    /\ flows = [n \in Nodes |-> {}]
    /\ edge_flow = {}
    /\ lg_valid = TRUE
    /\ lg_edge = [e \in Nodes \X Nodes |->
                     [last_update |-> 0, last_unrestricted_update |-> 0]]
    /\ st_valid = [s \in StationIDs |-> TRUE]
    /\ ge_link_graph = [s \in StationIDs |-> "job"]
    /\ ge_node = [s \in StationIDs |-> s - offset]
    /\ ge_flows = [s \in StationIDs |-> {}]
    /\ manual = FALSE
    /\ pc = "idle"
    /\ node_id = 0
    /\ rerouted = {}
    /\ redrawn = {}
    /\ calls = 0
    /\ last = [kind |-> "none", node |-> 0]
    /\ old_flows = [n \in Nodes |-> {}]
    /\ old_ge_flows = [s \in StationIDs |-> {}]
    /\ old_rerouted = {}
    /\ inv_erase = {}
    /\ events = <<>>
    /\ settings = [distribution_manual |-> manual]

\* the worker before its first step: nothing is initialised, no leg is made
WorkerStarts ==
    /\ nodes = <<>>
    /\ edges = <<>>
    /\ wlast = [kind |-> "none"]
    /\ paths = <<>>
    /\ node_paths = [n \in JobNodes |-> <<>>]
    /\ old_paths = <<>>
    /\ old_edges = <<>>
    /\ forks = 0
    /\ pushes = 0

\* snapshots of every size and supply; the legs are forked with any
\* capacity, free capacity and distance
WorkerInit ==
    /\ JobRunning
    /\ size \in 1 .. MaxSize
    /\ supply \in [JobNodes -> 0 .. MaxSupply]
    /\ capacity = [e \in JobNodes \X JobNodes |-> MaxCap]
    /\ max_saturation = UINT_MAX
    /\ WorkerStarts

\* snapshots of the largest size with every capacity table and saturation;
\* the legs are forked with the values of the edge they run along
FlowInit ==
    /\ JobRunning
    /\ size = MaxSize
    /\ supply = [n \in JobNodes |-> 0]
    /\ capacity \in CapacityTables
    /\ max_saturation \in Saturations
    /\ WorkerStarts

\* NodeAnnotation::Init that leaves the supply out
NodeAnnotationInitNoSupply(sup) ==
    [undelivered_supply |-> 0, received_demand |-> 0]

\* LinkGraphJob::NodeAnnotation::Init(supply)
NodeAnnotationInit(sup) ==
    [undelivered_supply |-> sup, received_demand |-> 0]

\* LinkGraphJob::EdgeAnnotation::Init()
EdgeAnnotationInit ==
    [demand |-> 0, flow |-> 0, unsatisfied_demand |-> 0]

\* LinkGraphJob::Init: the first thing the worker thread does.  Both arrays
\* are resized to the size of the snapshot and every element is initialised.
JobInit ==
    /\ thread = "running"
    /\ nodes = <<>>
    /\ nodes' = [i \in JobNodes |-> NodeAnnotationInit(supply[i])]
    /\ edges' = [e \in JobNodes \X JobNodes |-> EdgeAnnotationInit]
    /\ wlast' = [kind |-> "init"]
    /\ UNCHANGED <<size, supply, capacity, max_saturation, paths, node_paths,
                   old_paths, old_edges, forks, pushes, settings>>
    /\ UNCHANGED mainVars

(***************************************************************************)
(* Path: a leg of a flow tree.  The solver stage makes one leg per node of *)
(* the snapshot, in the order of the nodes, forks legs onto legs that are  *)
(* already part of a tree and pushes flow along them.                      *)
(***************************************************************************)
min(a, b) == IF a < b THEN a ELSE b

\* unsigned addition
UAdd(a, b) == IF a <= UINT_MAX - b THEN a + b ELSE (a - (UINT_MAX - b)) - 1

\* Path::Path(n, source)
Path(n, source) ==
    [distance |-> IF source THEN 0 ELSE UINT_MAX,
     capacity |-> IF source THEN UINT_MAX ELSE 0,
     free_capacity |-> IF source THEN INT_MAX ELSE INT_MIN,
     flow |-> 0,
     node |-> n,
     origin |-> IF source THEN n ELSE INVALID_NODE,
     num_children |-> 0,
     parent |-> NoParent]

Legs == DOMAIN paths

NewPath(source) ==
    /\ thread = "running"
    /\ nodes # <<>>
    /\ Cardinality(Legs) < size
    /\ LET n == Cardinality(Legs)
       IN  paths' = [i \in Legs \cup {n} |->
                        IF i = n THEN Path(n, source) ELSE paths[i]]
    /\ wlast' = [kind |-> "path"]
    /\ UNCHANGED <<size, supply, nodes, edges, capacity, max_saturation,
                   node_paths, old_paths, old_edges, forks, pushes, settings>>
    /\ UNCHANGED mainVars

\* the legs from p up to the root of its tree
RECURSIVE Chain(_, _)
Chain(ps, p) ==
    IF ps[p].parent = NoParent THEN {p}
    ELSE {p} \cup Chain(ps, ps[p].parent)

\* the leg is a source or has been forked onto a tree
Reached(p) == paths[p].distance # UINT_MAX

\* what the solver stage forks: a leg that is no source onto another leg that
\* is part of a tree and does not hang below it
MayFork(this, base) ==
    /\ this # base
    /\ paths[this].distance # 0
    /\ Reached(base)
    /\ this \notin Chain(paths, base)

\* Path::Detach(): the parent loses a child
Detach(ps, this) ==
    IF ps[this].parent = NoParent THEN ps
    ELSE [ps EXCEPT ![ps[this].parent].num_children = @ - 1,
                    ![this].parent = NoParent]

\* Fork that does not detach the leg from its old parent
ForkedNoDetach(ps, this, base, cap, free_cap, dist) ==
    LET q == IF ps[this].parent # base
             THEN [ps EXCEPT ![this].parent = base,
                             ![base].num_children = @ + 1]
             ELSE ps
    IN  [q EXCEPT ![this].capacity = min(ps[base].capacity, cap),
                  ![this].free_capacity = min(ps[base].free_capacity, free_cap),
                  ![this].distance = UAdd(ps[base].distance, dist),
                  ![this].origin = ps[base].origin]

\* Fork that makes the leg the parent of the base
ForkedUpsideDown(ps, this, base, cap, free_cap, dist) ==
    LET q == [ps EXCEPT ![base].parent = this,
                        ![this].num_children = @ + 1]
    IN  [q EXCEPT ![this].capacity = min(ps[base].capacity, cap),
                  ![this].free_capacity = min(ps[base].free_capacity, free_cap),
                  ![this].distance = UAdd(ps[base].distance, dist),
                  ![this].origin = ps[base].origin]

\* the legs after this->Fork(base, cap, free_cap, dist)
Forked(ps, this, base, cap, free_cap, dist) ==
    LET q == IF ps[this].parent # base
             THEN [Detach(ps, this) EXCEPT ![this].parent = base,
                                           ![base].num_children = @ + 1]
             ELSE ps
    IN  [q EXCEPT ![this].capacity = min(ps[base].capacity, cap),
                  ![this].free_capacity = min(ps[base].free_capacity, free_cap),
                  ![this].distance = UAdd(ps[base].distance, dist),
                  ![this].origin = ps[base].origin]

\* Path::Fork, with its assertion on the distance
Fork(this, base, cap, free_cap, dist) ==
    /\ thread = "running"
    /\ forks < MaxForks
    /\ MayFork(this, base)
    /\ UAdd(paths[base].distance, dist) > 0
    /\ paths' = Forked(paths, this, base, cap, free_cap, dist)
    /\ old_paths' = paths
    /\ old_edges' = edges
    /\ forks' = forks + 1
    /\ wlast' = [kind |-> "fork", leg |-> this, base |-> base]
    /\ UNCHANGED <<size, supply, nodes, edges, capacity, max_saturation,
                   node_paths, pushes, settings>>
    /\ UNCHANGED mainVars

(***************************************************************************)
(* Path::Fork called with any leg and any base, as the function itself     *)
(* allows: it has no test but the assertion on the distance.               *)
(***************************************************************************)
ForkAnywhere(this, base, cap, free_cap, dist) ==
    /\ thread = "running"
    /\ forks < MaxForks
    /\ UAdd(paths[base].distance, dist) > 0
    /\ paths' = Forked(paths, this, base, cap, free_cap, dist)
    /\ old_paths' = paths
    /\ old_edges' = edges
    /\ forks' = forks + 1
    /\ wlast' = [kind |-> "fork", leg |-> this, base |-> base]
    /\ UNCHANGED <<size, supply, nodes, edges, capacity, max_saturation,
                   node_paths, pushes, settings>>
    /\ UNCHANGED mainVars

\* snapshots of the largest size without supply
TreeInit ==
    /\ JobRunning
    /\ size = MaxSize
    /\ supply = [n \in JobNodes |-> 0]
    /\ capacity = [e \in JobNodes \X JobNodes |-> MaxCap]
    /\ max_saturation = UINT_MAX
    /\ WorkerStarts

TreeNext ==
    \/ JobInit
    \/ \E source \in BOOLEAN : NewPath(source)
    \/ \E this, base \in Legs, cap \in 1 .. MaxCap, free_cap \in FreeCaps,
          dist \in 1 .. MaxDist : ForkAnywhere(this, base, cap, free_cap, dist)

TreeSpec == TreeInit /\ [][TreeNext]_vars

\* the legs, edge annotations and path lists an AddFlow call works on
Calc(ps, es, ls) == [paths |-> ps, edges |-> es, node_paths |-> ls]

\* the usable capacity taken for the whole capacity of the edge
UsableCapIgnoresSaturation(edge, sat) == capacity[edge]

\* the usable capacity without the division by 100
UsableCapNoDivision(edge, sat) == capacity[edge] * sat

\* usable_cap = edge.Capacity() * max_saturation / 100
UsableCap(edge, sat) == (capacity[edge] * sat) \div 100

\* the new flow set to what the edge can still take, without the min
ClampNoMin(new_flow, usable_cap, flow) == usable_cap - flow

\* new_flow = min(new_flow, usable_cap - edge.Flow())
Clamp(new_flow, usable_cap, flow) == min(new_flow, usable_cap - flow)

\* AddFlow that applies to the leg's edge the amount asked of the parent, not
\* the amount the parent accepted
RECURSIVE AddFlowRequested(_, _, _, _)
AddFlowRequested(this, new_flow, sat, st) ==
    LET parent == st.paths[this].parent
    IN  IF parent = NoParent
        THEN [ret |-> new_flow,
              st |-> [st EXCEPT !.paths[this].flow = UAdd(@, new_flow)]]
        ELSE
          LET edge == <<st.paths[parent].node, st.paths[this].node>>
              usable_cap == UsableCap(edge, sat)
              stop == sat # UINT_MAX /\ ~(usable_cap > st.edges[edge].flow)
              clamped == IF sat # UINT_MAX
                         THEN Clamp(new_flow, usable_cap, st.edges[edge].flow)
                         ELSE new_flow
          IN  IF stop THEN [ret |-> 0, st |-> st]
              ELSE
                LET up == AddFlowRequested(parent, clamped, sat, st)
                    pushed == up.ret
                    lists == IF up.st.paths[this].flow = 0 /\ pushed > 0
                             THEN [up.st.node_paths EXCEPT
                                      ![st.paths[parent].node] = Append(@, this)]
                             ELSE up.st.node_paths
                IN  [ret |-> pushed,
                     st |-> [paths |-> [up.st.paths EXCEPT
                                           ![this].flow = UAdd(@, pushed)],
                             edges |-> [up.st.edges EXCEPT
                                           ![edge].flow = UAdd(@, clamped)],
                             node_paths |-> lists]]

\* this->AddFlow(new_flow, job, max_saturation) on the state st: the amount
\* pushed and the state it leaves
RECURSIVE AddFlow(_, _, _, _)
AddFlow(this, new_flow, sat, st) ==
    LET parent == st.paths[this].parent
    IN  IF parent = NoParent
        THEN [ret |-> new_flow,
              st |-> [st EXCEPT !.paths[this].flow = UAdd(@, new_flow)]]
        ELSE
          LET edge == <<st.paths[parent].node, st.paths[this].node>>
              usable_cap == UsableCap(edge, sat)
              stop == sat # UINT_MAX /\ ~(usable_cap > st.edges[edge].flow)
              clamped == IF sat # UINT_MAX
                         THEN Clamp(new_flow, usable_cap, st.edges[edge].flow)
                         ELSE new_flow
          IN  IF stop THEN [ret |-> 0, st |-> st]
              ELSE
                LET up == AddFlow(parent, clamped, sat, st)
                    pushed == up.ret
                    lists == IF up.st.paths[this].flow = 0 /\ pushed > 0
                             THEN [up.st.node_paths EXCEPT
                                      ![st.paths[parent].node] = Append(@, this)]
                             ELSE up.st.node_paths
                IN  [ret |-> pushed,
                     st |-> [paths |-> [up.st.paths EXCEPT
                                           ![this].flow = UAdd(@, pushed)],
                             edges |-> [up.st.edges EXCEPT
                                           ![edge].flow = UAdd(@, pushed)],
                             node_paths |-> lists]]

\* AddFlow that registers no leg
PushFlowRegistersNothing(this, new_flow) ==
    /\ thread = "running"
    /\ edges # <<>>
    /\ pushes < MaxPushes
    /\ Reached(this)
    /\ LET r == AddFlow(this, new_flow, max_saturation,
                        Calc(paths, edges, node_paths))
       IN  /\ paths' = r.st.paths
           /\ edges' = r.st.edges
           /\ wlast' = [kind |-> "addflow", leg |-> this,
                        new_flow |-> new_flow, ret |-> r.ret]
    /\ old_paths' = paths
    /\ old_edges' = edges
    /\ pushes' = pushes + 1
    /\ UNCHANGED <<size, supply, nodes, capacity, max_saturation, forks,
                   settings, node_paths>>
    /\ UNCHANGED mainVars

\* a solver stage pushes flow along a leg of a tree
PushFlow(this, new_flow) ==
    /\ thread = "running"
    /\ edges # <<>>
    /\ pushes < MaxPushes
    /\ Reached(this)
    /\ LET r == AddFlow(this, new_flow, max_saturation,
                        Calc(paths, edges, node_paths))
       IN  /\ paths' = r.st.paths
           /\ edges' = r.st.edges
           /\ node_paths' = r.st.node_paths
           /\ wlast' = [kind |-> "addflow", leg |-> this,
                        new_flow |-> new_flow, ret |-> r.ret]
    /\ old_paths' = paths
    /\ old_edges' = edges
    /\ pushes' = pushes + 1
    /\ UNCHANGED <<size, supply, nodes, capacity, max_saturation, forks,
                   settings>>
    /\ UNCHANGED mainVars

\* the solver stage forks a leg along an edge of the snapshot: the capacity
\* and the free capacity are the edge's, the distance is one hop
ForkEdge(this, base) ==
    LET edge == <<paths[base].node, paths[this].node>>
    IN  /\ edges # <<>>
        /\ Fork(this, base, capacity[edge],
                capacity[edge] - edges[edge].flow, 1)

FlowNext ==
    \/ JobInit
    \/ \E source \in BOOLEAN : NewPath(source)
    \/ \E this, base \in Legs : ForkEdge(this, base)
    \/ \E this \in Legs, new_flow \in 1 .. MaxPush : PushFlow(this, new_flow)

FlowSpec == FlowInit /\ [][FlowNext]_vars

WorkerNext ==
    \/ JobInit
    \/ \E source \in BOOLEAN : NewPath(source)
    \/ \E this, base \in Legs, cap \in 1 .. MaxCap, free_cap \in FreeCaps,
          dist \in 1 .. MaxDist : Fork(this, base, cap, free_cap, dist)

WorkerSpec == WorkerInit /\ [][WorkerNext]_vars

(***************************************************************************)
(* Properties.                                                             *)
(***************************************************************************)

\* C1: once FinaliseJob has got past its first statement (it has returned
\* because the graph is gone, or it is in or past its loop over the nodes),
\* the worker thread is not running and the group has been released: the
\* join comes first, whatever the state of the job.
C1_JoinBeforeMerge ==
    calls > 0 => (thread # "running" /\ ~group)

\* a merge step is about to read tables the worker thread has filled
C1_Witness ==
    /\ pc = "merge"
    /\ thread = "finished"
    /\ flows[node_id] # {}

\* C2: with the link graph gone, a FinaliseJob call changes no live flow
\* table, no computed flow table, reroutes nothing and redraws nothing, and
\* leaves the main thread outside the loop; so does the second call.
C2_GraphGoneNoChange ==
    (~lg_valid /\ calls > 0) =>
        /\ pc = "idle"
        /\ last.kind = "abandon"
        /\ flows = old_flows
        /\ ge_flows = old_ge_flows
        /\ rerouted = {}
        /\ redrawn = {}

\* FinaliseJob has been called twice on a job whose graph is gone, with
\* computed and live entries in the tables
C2_Witness ==
    /\ ~lg_valid
    /\ calls = 2
    /\ \E n \in Nodes : flows[n] # {}
    /\ \E s \in StationIDs : ge_flows[s] # {}

\* the node and the station of the last step of FinaliseJob, the tables the
\* step found and the tables it left
LastStation == Station(last.node)
OldNew == old_flows[last.node]
OldLive == old_ge_flows[LastStation]
NowNew == flows[last.node]
NowLive == ge_flows[LastStation]

\* C3: after FinaliseJob has found the station of a node gone or
\* inconsistent, no node's computed flow table holds an entry whose origin
\* is that node's station.
C3_ErasedNodeLeavesNoFlows ==
    last.kind = "erase" =>
        \A n \in Nodes : LastStation \notin Origins(flows[n])

\* C4: after the merge step of a node, every origin that had an entry in the
\* live table and in the computed table has exactly one live entry, and its
\* shares are the computed ones.
C4_MergeTakesComputedShares ==
    last.kind = "merge" =>
        \A o \in Origins(OldLive) \cap Origins(OldNew) :
            /\ Find(NowLive, o) = Find(OldNew, o)
            /\ Cardinality(Find(NowLive, o)) = 1

\* a merge step has met an origin whose live shares differed from the
\* computed ones
C4_Witness ==
    /\ last.kind = "merge"
    /\ \E o \in Origins(OldLive) \cap Origins(OldNew) :
           Find(OldLive, o) # Find(OldNew, o)

\* C5 as claimed: with disjoint origins the live table after the merge step
\* is the union of the live and the computed table it found.
C5_DisjointMergeIsUnion ==
    (last.kind = "merge" /\ Origins(OldLive) \cap Origins(OldNew) = {}) =>
        NowLive = OldLive \cup OldNew

\* C5 as amended: with disjoint origins the live table after the merge step
\* holds every computed entry unchanged and, of the live entries it found,
\* those that are not erased (distribution is not manual and Invalidate()
\* did not ask for it), each with its shares invalidated; nothing else.
C5_DisjointMergeKeepsComputed ==
    (last.kind = "merge" /\ Origins(OldLive) \cap Origins(OldNew) = {}) =>
        NowLive = OldNew \cup
            {Invalidate(e) : e \in {x \in OldLive : ~manual /\ x.origin \notin inv_erase}}

\* a merge step with disjoint origins has kept a live entry and inserted a
\* computed one
C5_Witness ==
    /\ last.kind = "merge"
    /\ Origins(OldLive) \cap Origins(OldNew) = {}
    /\ OldNew # {}
    /\ \E e \in OldLive : e.origin \in Origins(NowLive)

\* the edges <<last.node, m>> with flow that the edge loop finds removed
RemovedEdges ==
    {m \in Nodes :
        /\ <<last.node, m>> \in edge_flow
        /\ \/ ~st_valid[Station(m)]
           \/ ge_link_graph[Station(m)] # "job"
           \/ ge_node[Station(m)] # m
           \/ lg_edge[<<last.node, m>>].last_update = INVALID_DATE}

\* the edges <<last.node, m>> with flow that the edge loop finds restricted
RestrictedEdges ==
    {m \in Nodes \ RemovedEdges :
        /\ <<last.node, m>> \in edge_flow
        /\ lg_edge[<<last.node, m>>].last_unrestricted_update = INVALID_DATE}

\* the computed entries all of whose shares go to removed edges
EmptiedOrigins ==
    {e.origin : e \in {x \in OldNew : Vias(x) \subseteq {Station(m) : m \in RemovedEdges}}}

C7_RestrictedEdgeMarksShares ==
    last.kind = "edges" =>
        \A m \in RestrictedEdges :
            /\ \A e \in OldNew : \A sh \in e.shares :
                   sh.via = Station(m) =>
                       \E e2 \in NowNew :
                           /\ e2.origin = e.origin
                           /\ [sh EXCEPT !.restricted = TRUE] \in e2.shares
            /\ \A l \in OldLive :
                   (\E e \in OldNew : e.origin = l.origin /\ Station(m) \in Vias(e))
                       => l \in NowLive
            /\ RemovedEdges = {} => NowLive = OldLive

\* the edge loop has restricted a share of a computed entry whose origin
\* has a live entry
C7_Witness ==
    /\ last.kind = "edges"
    /\ \E m \in RestrictedEdges : \E e \in NowNew :
           /\ \E sh \in e.shares : sh.via = Station(m) /\ sh.restricted
           /\ e.origin \in Origins(NowLive)

\* C8: after the merge step at station A under automatic distribution, a
\* live entry whose origin has no computed entry and whose Invalidate()
\* asked for the erasure is gone from A's live table, and RerouteCargo has
\* been called at A for every next hop of its shares with A as fallback.
C8_InvalidatedEntryErasedAndRerouted ==
    (last.kind = "merge" /\ ~manual) =>
        \A e \in OldLive :
            (e.origin \notin Origins(OldNew) /\ e.origin \in inv_erase) =>
                /\ e.origin \notin Origins(NowLive)
                /\ \A v \in Vias(e) : <<LastStation, v, LastStation>> \in rerouted

\* a merge step under automatic distribution has met a live entry without
\* computed entry whose invalidation asked for the erasure
C8_Witness ==
    /\ last.kind = "merge" /\ ~manual
    /\ \E e \in OldLive : e.origin \notin Origins(OldNew) /\ e.origin \in inv_erase

\* C9: once the abort flag of the job is set, no FinaliseJob call is made
\* on it: no step starts the call, enters its loop, reroutes cargo or
\* redraws a station; what follows is the worker thread ending and a
\* JoinThread call or the destructor joining it.
C9_AbortedNeverFinalised ==
    [][abort_job =>
          /\ calls' = calls
          /\ pc' = "idle"
          /\ rerouted' = rerouted
          /\ redrawn' = redrawn
          /\ \/ UNCHANGED <<group, destroyed>>
             \/ (~group' /\ thread # "running")]_vars

\* an aborted job whose worker saw the flag has been joined and destroyed
\* without a FinaliseJob call
C9_Witness ==
    /\ abort_job /\ destroyed
    /\ thread = "finished" /\ ~job_completed
    /\ calls = 0

\* C10: a destroyed job has no running worker thread and holds no group:
\* the destructor has joined before the job went away.
C10_DestroyedAfterJoin ==
    destroyed => (thread # "running" /\ ~group)

\* a job whose worker thread ran has been destroyed
C10_Witness ==
    /\ destroyed
    /\ thread = "finished"

\* C11: a JoinThread call on a job with a group returns only when the worker
\* thread is not running, and leaves the job without group and everything
\* else as it was; a call on a job without group (a later call, or a job
\* that never had a group) changes nothing of the job and the world.
C11_JoinThreadIdempotent ==
    [][(last' # last /\ last'.kind \in {"join", "nojoin"}) =>
          IF group
          THEN /\ last'.kind = "join"
               /\ thread # "running"
               /\ ~group'
               /\ UNCHANGED <<offset, thread, job_completed, abort_job, destroyed,
                              flows, edge_flow, ge_flows, pc, node_id, rerouted,
                              redrawn, calls, inv_erase, events>>
               /\ UNCHANGED worldVars
          ELSE /\ last'.kind = "nojoin"
               /\ UNCHANGED <<offset, flows, edge_flow, ge_flows, pc, node_id,
                              rerouted, redrawn, calls, inv_erase, events>>
               /\ UNCHANGED jobVars
               /\ UNCHANGED worldVars]_vars

\* JoinThread has been called again on a job whose worker thread ran and
\* whose group an earlier JoinThread call has released
C11_Witness ==
    /\ last.kind = "nojoin"
    /\ thread = "finished"
    /\ ~group /\ ~destroyed /\ calls = 0

\* C19: right after Init() on a job whose snapshot has size nodes there are
\* size node annotations and size x size edge annotations; node annotation
\* i has the supply of node i as undelivered_supply and received_demand 0;
\* every edge annotation has demand, flow and unsatisfied_demand 0.
C19_InitAnnotations ==
    wlast.kind = "init" =>
        /\ DOMAIN nodes = JobNodes
        /\ Cardinality(DOMAIN nodes) = size
        /\ DOMAIN edges = JobNodes \X JobNodes
        /\ Cardinality(DOMAIN edges) = size * size
        /\ \A i \in JobNodes :
               /\ nodes[i].undelivered_supply = supply[i]
               /\ nodes[i].received_demand = 0
        /\ \A i, j \in JobNodes :
               /\ edges[<<i, j>>].demand = 0
               /\ edges[<<i, j>>].flow = 0
               /\ edges[<<i, j>>].unsatisfied_demand = 0

\* Init() has run on a snapshot of several nodes with different supplies
C19_Witness ==
    /\ wlast.kind = "init"
    /\ size > 1
    /\ \E i, j \in JobNodes : supply[i] # supply[j]

\* C12: with a finite max_saturation, whatever AddFlow calls have been made
\* since Init() set the flows to 0, the flow on every edge is at most
\* capacity * max_saturation / 100 of that edge.
C12_EdgeFlowWithinSaturation ==
    (max_saturation # UINT_MAX /\ edges # <<>>) =>
        \A e \in DOMAIN edges :
            edges[e].flow <= (capacity[e] * max_saturation) \div 100

\* an AddFlow call with a finite max_saturation has pushed less than it was
\* asked to, and has left an edge of the leg's chain full
C12_Witness ==
    /\ max_saturation # UINT_MAX
    /\ wlast.kind = "addflow"
    /\ wlast.ret > 0 /\ wlast.ret < wlast.new_flow
    /\ \E e \in DOMAIN edges :
           edges[e].flow = (capacity[e] * max_saturation) \div 100

\* C13: an AddFlow call returns at least 0 and at most the amount asked
\* for; with max_saturation UINT_MAX it returns the amount asked for.
C13_AddFlowReturn ==
    wlast.kind = "addflow" =>
        /\ 0 <= wlast.ret
        /\ wlast.ret <= wlast.new_flow
        /\ max_saturation = UINT_MAX => wlast.ret = wlast.new_flow

\* AddFlow calls without limit have pushed flow along a leg with a parent,
\* beyond the capacity of its edge
C13_Witness ==
    /\ max_saturation = UINT_MAX
    /\ wlast.kind = "addflow"
    /\ paths[wlast.leg].parent # NoParent
    /\ \E e \in DOMAIN edges : edges[e].flow > capacity[e]

\* C14: every leg with a parent has a larger distance than its parent and
\* at most its parent's capacity and free capacity, also when the parent
\* has been forked again after the leg was attached to it.
C14_ChainMonotone ==
    \A p \in Legs :
        paths[p].parent # NoParent =>
            /\ paths[p].distance > paths[paths[p].parent].distance
            /\ paths[p].capacity <= paths[paths[p].parent].capacity
            /\ paths[p].free_capacity <= paths[paths[p].parent].free_capacity

\* the legs whose parent is p
Children(ps, p) == {c \in DOMAIN ps : ps[c].parent = p}

\* C15: a Fork onto a base that is not the leg's parent takes one child
\* from the old parent, if there is one, and gives one to the base; a Fork
\* onto the leg's parent changes no child count; no other leg's count
\* changes.  At all times the child count of a leg is the number of legs
\* whose parent it is.
C15_ChildCounts ==
    /\ \A p \in Legs : paths[p].num_children = Cardinality(Children(paths, p))
    /\ wlast.kind = "fork" =>
           LET was == old_paths[wlast.leg].parent
               Delta(p) == paths[p].num_children - old_paths[p].num_children
           IN  \A p \in Legs :
                   Delta(p) = (IF p = wlast.base /\ was # wlast.base THEN 1 ELSE 0)
                              - (IF p = was /\ was # wlast.base THEN 1 ELSE 0)

\* a leg has been forked from one parent onto another base
C15_Witness ==
    /\ wlast.kind = "fork"
    /\ old_paths[wlast.leg].parent # NoParent
    /\ old_paths[wlast.leg].parent # wlast.base
    /\ paths[wlast.leg].parent = wlast.base

\* C16: after EraseFlows(X) no node's computed flow table holds an entry
\* whose origin is X, and every table holds the entries with another origin
\* it held before, unchanged.  X is the id FinaliseJob passes: last.node.
C16_EraseFlowsErasesOrigin ==
    last.kind = "erase" =>
        \A n \in Nodes :
            /\ last.node \notin Origins(flows[n])
            /\ flows[n] = {e \in old_flows[n] : e.origin # last.node}

\* EraseFlows(X) has erased an entry with origin X from the table of
\* another node and has left an entry with another origin
C16_Witness ==
    /\ last.kind = "erase"
    /\ \E n \in Nodes \ {last.node} : last.node \in Origins(old_flows[n])
    /\ \E n \in Nodes : flows[n] # {}

\* the orders the nodes can be taken in
Orders == {f \in [Nodes -> Nodes] : \A n \in Nodes : \E k \in Nodes : f[k] = n}

\* what the Invalidate() calls of a FinaliseJob run may return
Oracles == [NodeStations -> SUBSET NodeStations]

\* FinaliseJob is at the start of its loop over the nodes
AtLoopStart == last.kind = "start" /\ pc = "edges" /\ node_id = 0

\* the live tables are the same for every order of the nodes
SameForEveryOrder ==
    \A orc \in Oracles : \A order \in Orders :
        ProcessFrom(0, order, flows, ge_flows, orc).ge
            = ProcessFrom(0, CodeOrder, flows, ge_flows, orc).ge

\* a step of the loop for a node leaves the computed tables of the other
\* nodes and the live tables of the other stations as they were
StepTouchesOwnTables ==
    /\ \A n \in Nodes \ {last.node} : flows[n] = old_flows[n]
    /\ \A st \in StationIDs \ {LastStation} : ge_flows[st] = old_ge_flows[st]

\* the nodes whose station is gone or inconsistent
InconsistentNodes ==
    {n \in Nodes :
        \/ ~st_valid[Station(n)]
        \/ ge_link_graph[Station(n)] # "job"
        \/ ge_node[Station(n)] # n}

\* C17 as claimed: every step of the loop for node i touches only node i's
\* computed table and its station's live table, and the live tables after
\* the loop are the same for every order of the nodes.
C17_NodesIndependent ==
    /\ last.kind \in {"erase", "edges", "merge"} => StepTouchesOwnTables
    /\ AtLoopStart => SameForEveryOrder

\* C17 as amended: the steps for a node with a consistent station touch
\* only the node's computed table and its station's live table; the step
\* for a node whose station is gone or inconsistent erases the entries with
\* the node's id as origin from every node's computed table and touches no
\* live table; the live tables after the loop are the same for every order
\* of the nodes when no other node's computed table holds such an entry.
C17_ConsistentNodesIndependent ==
    /\ last.kind \in {"edges", "merge"} => StepTouchesOwnTables
    /\ last.kind = "erase" =>
           /\ ge_flows = old_ge_flows
           /\ \A n \in Nodes : flows[n] = {e \in old_flows[n] : e.origin # last.node}
    /\ (/\ AtLoopStart
        /\ \A i \in InconsistentNodes : \A n \in Nodes \ {i} :
               i \notin Origins(flows[n]))
           => SameForEveryOrder

\* the loop starts with a node whose station is gone or inconsistent, with
\* computed entries at the other node and live entries at its station
C17_Witness ==
    /\ AtLoopStart
    /\ InconsistentNodes # {}
    /\ \A i \in InconsistentNodes : \A n \in Nodes \ {i} :
           i \notin Origins(flows[n])
    /\ \E n \in Nodes \ InconsistentNodes :
           flows[n] # {} /\ ge_flows[Station(n)] # {}

\* the live entries a merge step leaves for the origins the computed table
\* did not hold, and what the step would leave of them under the
\* distribution type dt_manual when Invalidate() returns true for orc
AbsentLeft == {e \in NowLive : e.origin \in Origins(Absent(OldLive, OldNew))}
AbsentLeftUnder(dt_manual, orc) ==
    {Invalidate(e) : e \in {x \in Absent(OldLive, OldNew) :
                               ~(dt_manual \/ x.origin \in orc)}}

\* C18: a job uses only the settings captured at its creation: whatever
\* the Invalidate() calls report, a merge step leaves the live table a run
\* with the global settings still as the job copied them would leave.
C18_SnapshotSettingsOnly ==
    last.kind = "merge" =>
        \A orc \in SUBSET Origins(Absent(OldLive, OldNew)) :
            (manual \/ orc = inv_erase) =>
                AbsentLeft = AbsentLeftUnder(settings.distribution_manual, orc)

\* C20: a merge step made while the distribution type is manual asks no
\* Invalidate() and leaves no live entry for an origin the computed flow
\* table had no entry for.
C20_ManualErasesWithoutInvalidation ==
    (last.kind = "merge" /\ manual) =>
        /\ inv_erase = {}
        /\ \A e \in OldLive :
               e.origin \notin Origins(OldNew) => e.origin \notin Origins(NowLive)

\* a merge step under manual distribution has met a live entry whose origin
\* the computed table did not hold
C20_Witness ==
    /\ last.kind = "merge" /\ manual
    /\ \E e \in OldLive : e.origin \notin Origins(OldNew)

\* C21: in a merge step under automatic distribution, a live entry whose
\* origin the computed table does not hold and whose Invalidate() returned
\* false stays in the live table with invalidated shares, and every cargo
\* rerouted by the step is rerouted for an entry that was erased.
C21_InvalidatedEntryStays ==
    (last.kind = "merge" /\ ~manual) =>
        /\ \A e \in OldLive :
               (e.origin \notin Origins(OldNew) /\ e.origin \notin inv_erase)
                   => Invalidate(e) \in NowLive
        /\ \A r \in rerouted \ old_rerouted :
               \E e \in OldLive :
                   /\ e.origin \notin Origins(OldNew)
                   /\ e.origin \in inv_erase
                   /\ r[2] \in Vias(e)

\* a merge step under automatic distribution has met a live entry without
\* computed entry whose invalidation did not ask for the erasure
C21_Witness ==
    /\ last.kind = "merge" /\ ~manual
    /\ \E e \in OldLive : e.origin \notin Origins(OldNew) /\ e.origin \notin inv_erase

\* the calls the last merge step made for the erased entry of origin o
ErasePos(o) == {i \in DOMAIN events : events[i].kind = "erase" /\ events[i].origin = o}
ReroutePos(o) == {i \in DOMAIN events : events[i].kind = "reroute" /\ events[i].origin = o}

\* C22 as stated: every RerouteCargo call for an entry the merge step erases
\* is made before the entry is removed from the live table.
C22_RerouteBeforeErase ==
    last.kind = "merge" =>
        \A e \in OldLive :
            e.origin \notin Origins(NowLive) =>
                \A i \in ReroutePos(e.origin), j \in ErasePos(e.origin) : i < j

\* C22: for every entry the merge step erases, the entry is removed from the
\* live table once, after its shares were taken out of it, a RerouteCargo
\* call is made for every next hop of these shares, and each of these calls
\* follows the removal.
C22_EraseBeforeReroute ==
    last.kind = "merge" =>
        \A e \in OldLive :
            e.origin \notin Origins(NowLive) =>
                /\ Cardinality(ErasePos(e.origin)) = 1
                /\ {events[i].via : i \in ReroutePos(e.origin)} = Vias(e)
                /\ \A i \in ReroutePos(e.origin), j \in ErasePos(e.origin) : j < i

\* a merge step has erased an entry and rerouted the cargo of its shares
C22_Witness ==
    /\ last.kind = "merge"
    /\ \E e \in OldLive :
           /\ e.origin \notin Origins(NowLive)
           /\ ErasePos(e.origin) # {}
           /\ ReroutePos(e.origin) # {}

\* the live entries the last step of FinaliseJob removed from the table of
\* its station
Removed == {e \in OldLive : e.origin \notin Origins(NowLive)}

\* C23 as stated: for every live entry removed by the merge step or by the
\* cascade delete of the loop over the edges, RerouteCargo has been called
\* for each next hop of its shares.
C23_EveryRemovalReroutes ==
    last.kind \in {"merge", "edges"} =>
        \A e \in Removed : \A v \in Vias(e) :
            <<LastStation, v, LastStation>> \in rerouted

\* C23: for every live entry removed by the merge step RerouteCargo has been
\* called for each next hop of its shares; the loop over the edges, cascade
\* delete included, calls no RerouteCargo.
C23_MergeRemovalReroutes ==
    /\ last.kind = "merge" =>
           \A e \in Removed : \A v \in Vias(e) :
               <<LastStation, v, LastStation>> \in rerouted
    /\ last.kind = "edges" => rerouted = old_rerouted

\* the cascade delete has removed a live entry before any cargo was rerouted
C23_Witness ==
    /\ last.kind = "edges"
    /\ Removed # {}
    /\ rerouted = {}

\* the edge a leg runs along: from its parent's node to its own
LegEdge(ps, p) == <<ps[ps[p].parent].node, ps[p].node>>

\* C24: when AddFlow on a leg has returned r, the flow of the leg and of
\* every leg above it up to the root, and the flow of the edge of each of
\* them that has a parent, are r larger than before the call.
C24_FlowAppliedIsFlowAccepted ==
    wlast.kind = "addflow" =>
        \A p \in Chain(old_paths, wlast.leg) :
            /\ paths[p].flow = old_paths[p].flow + wlast.ret
            /\ old_paths[p].parent # NoParent =>
                   edges[LegEdge(old_paths, p)].flow
                       = old_edges[LegEdge(old_paths, p)].flow + wlast.ret

\* AddFlow on a leg two edges below its root, whose own edge had room for
\* all that was requested, has returned less than that and more than 0
C24_Witness ==
    /\ wlast.kind = "addflow"
    /\ wlast.ret > 0 /\ wlast.ret < wlast.new_flow
    /\ Cardinality(Chain(old_paths, wlast.leg)) = 3
    /\ max_saturation # UINT_MAX
    /\ UsableCap(LegEdge(old_paths, wlast.leg), max_saturation)
           - old_edges[LegEdge(old_paths, wlast.leg)].flow >= wlast.new_flow

\* the places <<node, index>> of the path lists where leg p is registered
Registered(p) ==
    {x \in UNION {{<<n, i>> : i \in DOMAIN node_paths[n]} : n \in JobNodes} :
        node_paths[x[1]][x[2]] = p}

\* the legs whose parent is at node n and whose flow an AddFlow call takes
\* from zero to positive
NewlyPositive(n) ==
    {p \in Legs : /\ paths[p].parent # NoParent
                  /\ paths[paths[p].parent].node = n
                  /\ paths[p].flow = 0
                  /\ paths'[p].flow > 0}

\* C25: a leg with a parent is registered once when it has flow and not at
\* all when it has none; an AddFlow call appends to the path list of a node
\* the legs below that node whose flow it takes from zero to positive, and
\* nothing else: a call that pushes 0 registers nothing, and a leg that has
\* flow already is not registered again.
C25_RegisteredOnce ==
    /\ [](\A p \in Legs :
            Cardinality(Registered(p)) =
                IF paths[p].flow > 0 /\ paths[p].parent # NoParent THEN 1 ELSE 0)
    /\ [][pushes' = pushes + 1 =>
            \A n \in JobNodes :
                /\ Len(node_paths'[n]) = Len(node_paths[n]) + Cardinality(NewlyPositive(n))
                /\ SubSeq(node_paths'[n], 1, Len(node_paths[n])) = node_paths[n]
                /\ {node_paths'[n][i] : i \in (Len(node_paths[n]) + 1) .. Len(node_paths'[n])}
                       = NewlyPositive(n)]_vars

\* a second AddFlow call has pushed flow onto a leg that had flow already,
\* and the leg is registered once, at its parent's node
C25_Witness ==
    /\ wlast.kind = "addflow" /\ wlast.ret > 0
    /\ old_paths[wlast.leg].flow > 0
    /\ paths[wlast.leg].parent # NoParent
    /\ Registered(wlast.leg) = {<<paths[paths[wlast.leg].parent].node, 1>>}

\* AddFlow is called on a leg with a parent while max_saturation is finite
\* and the flow of the leg's edge has reached capacity * max_saturation / 100
SaturatedCall(leg) ==
    /\ max_saturation # UINT_MAX
    /\ paths[leg].parent # NoParent
    /\ edges[LegEdge(paths, leg)].flow
           >= (capacity[LegEdge(paths, leg)] * max_saturation) \div 100

\* C26: an AddFlow call on a leg whose edge is saturated under a finite
\* max_saturation returns 0 and changes no leg, no edge annotation and no
\* path list.
C26_SaturatedEdgeStops ==
    [][(pushes' = pushes + 1 /\ SaturatedCall(wlast'.leg)) =>
           /\ wlast'.ret = 0
           /\ UNCHANGED <<paths, edges, node_paths>>]_vars

\* AddFlow has returned 0 on a leg whose edge had carried flow up to its
\* usable capacity
C26_Witness ==
    /\ wlast.kind = "addflow" /\ wlast.ret = 0
    /\ max_saturation # UINT_MAX
    /\ paths[wlast.leg].parent # NoParent
    /\ edges[LegEdge(paths, wlast.leg)].flow > 0
    /\ edges[LegEdge(paths, wlast.leg)].flow
           = (capacity[LegEdge(paths, wlast.leg)] * max_saturation) \div 100
    /\ paths = old_paths /\ edges = old_edges

\* what a step does to station s: its live table is written, cargo is
\* rerouted at it, or a redraw is emitted for it
StationWritten(s) ==
    \/ ge_flows'[s] # ge_flows[s]
    \/ \E r \in rerouted' \ rerouted : r[1] = s
    \/ s \in redrawn' \ redrawn

\* the goods entry of station s points at the job's graph and at the node
\* under which the snapshot holds s
PointsAtJob(s) ==
    \E n \in Nodes :
        /\ s = n + offset
        /\ st_valid[s]
        /\ ge_link_graph[s] = "job"
        /\ ge_node[s] = n

\* C27: a step of FinaliseJob writes the live table of, reroutes cargo at or
\* emits a redraw for a station only if the goods entry of that station
\* points at the job's graph and at the station's node of the snapshot.
C27_OnlyConsistentStationsWritten ==
    [][(pc # "idle" \/ calls' # calls) =>
           \A s \in StationIDs : StationWritten(s) => PointsAtJob(s)]_vars

\* FinaliseJob has merged into one station and has left alone, without a
\* redraw, a station with live flows that was reassigned or renumbered
C27_Witness ==
    /\ pc = "idle" /\ calls = 1
    /\ redrawn # {}
    /\ \E n \in Nodes :
           /\ st_valid[n + offset]
           /\ (ge_link_graph[n + offset] # "job" \/ ge_node[n + offset] # n)
           /\ ge_flows[n + offset] # {}
           /\ (n + offset) \notin redrawn

\* C28: the abort flag is false at construction; a step that changes it
\* sets it, and changes neither the completed flag, the group, the thread
\* nor any flow table (AbortJob returns whatever the thread does); and the
\* thread ends on the flag only after the flag was set.
C28_AbortFlag ==
    /\ ~abort_job
    /\ [][/\ abort_job' # abort_job =>
                 /\ abort_job'
                 /\ UNCHANGED <<job_completed, group, thread, destroyed, flows,
                                edge_flow, ge_flows, rerouted, redrawn>>
          /\ (thread = "running" /\ thread' = "finished" /\ ~job_completed')
                 => abort_job]_vars

\* AbortJob has returned on a job whose thread still runs, with the flow
\* tables computed so far in place and the job not completed
C28_Witness ==
    /\ abort_job
    /\ thread = "running" /\ group
    /\ ~job_completed
    /\ \E n \in Nodes : flows[n] # {}

\* the legs reached from p by following up to k parent links
RECURSIVE Above(_, _, _)
Above(ps, p, k) ==
    IF k = 0 \/ ps[p].parent = NoParent THEN {}
    ELSE {ps[p].parent} \cup Above(ps, ps[p].parent, k - 1)

Ancestors(ps, p) == Above(ps, p, Cardinality(DOMAIN ps))

\* no leg is its own ancestor, and from every leg a leg without parent is
\* reached: the recursion of AddFlow up the parent links ends
Forest(ps) ==
    \A p \in DOMAIN ps :
        /\ p \notin Ancestors(ps, p)
        /\ \E r \in {p} \cup Ancestors(ps, p) : ps[r].parent = NoParent

\* C29 as stated: after any Path constructions and Fork calls the parent
\* links form a forest.
C29_AlwaysForest == Forest(paths)

\* C29: no legs form a forest; a Path construction keeps a forest a forest;
\* and so does a Fork call of a leg onto a base that is neither the leg
\* itself nor below the leg.
C29_DisciplinedForkKeepsForest ==
    /\ Forest(paths)
    /\ [][Forest(paths) =>
            /\ Legs' # Legs => Forest(paths')
            /\ (/\ forks' = forks + 1
                /\ wlast'.leg # wlast'.base
                /\ wlast'.leg \notin Ancestors(paths, wlast'.base))
                   => Forest(paths')]_vars

\* a leg that had a parent has been forked onto another base that is not
\* below it, and the legs are a forest with a leg two links below its root
C29_Witness ==
    /\ wlast.kind = "fork"
    /\ old_paths[wlast.leg].parent \notin {NoParent, wlast.base}
    /\ wlast.leg # wlast.base
    /\ wlast.leg \notin Ancestors(old_paths, wlast.base)
    /\ Forest(old_paths) /\ Forest(paths)
    /\ \E p \in Legs : Cardinality(Ancestors(paths, p)) = 2

====
